---------------------------- MODULE Spec2Model ----------------------------
(***************************************************************************)
(* Curve41417 scalar arithmetic (src/src/sc.rs): ScalarElem, a 52-limb     *)
(* radix-256 little-endian integer with i64 limbs, computed mod L.         *)
(***************************************************************************)
EXTENDS Integers, Sequences, FiniteSets, TLC

(***************************************************************************)
(* Evaluation order.  TLC evaluates operator arguments and LET definitions *)
(* on demand, once, and a tuple from left to right.  A function body is a  *)
(* chain of Let, one for each assignment, in program order; a loop is For. *)
(***************************************************************************)
\* the last of stmts, all of them evaluated in order
Then(stmts) == stmts[Len(stmts)]

\* let x = e; F(x): e is evaluated, once, before what follows it
Let(x, F(_)) == Then(<<x, F(x)>>)

Min(a, b) == IF a < b THEN a ELSE b

RECURSIVE For(_, _, _, _)
\* for i in range(lo, hi) { s = Body(s, i) }: the iterations lo..hi-1 in order,
\* the range cut in four consecutive parts run one after the other
For(Body(_, _), s, lo, hi) ==
  IF hi - lo < 2 THEN (IF hi > lo THEN Body(s, lo) ELSE s)
  ELSE LET q == (hi - lo + 3) \div 4
           a == For(Body, s, lo, lo + q)
           b == For(Body, a, lo + q, Min(lo + 2 * q, hi))
           c == For(Body, b, lo + 2 * q, Min(lo + 3 * q, hi))
           d == For(Body, c, lo + 3 * q, hi)
       IN  Then(<<a, b, c, d>>)

\* a buffer as an explicit array: TLC keeps [i \in S |-> e] unevaluated and
\* evaluates e at every application; merged with itself it is evaluated once
Arr(f) == f @@ f

(***************************************************************************)
(* i64 limbs.  TLC integers are 32 bits wide, so an i64 is kept as three   *)
(* digits <<h, m, l>> of value h*2^40 + m*2^20 + l, with 0 <= m, l < 2^20  *)
(* and -2^23 <= h < 2^23: exactly the 64-bit two's complement range, with  *)
(* wrap-around on overflow as the release build of the code computes.      *)
(***************************************************************************)
B20 == 2^20
H23 == 2^23
H24 == 2^24

\* WNorm for limbs of 32 bits: the low 32 bits of the digit sums, sign-extended
WNorm32(h, m, l) ==
  Let((m + (l \div B20)) % B20, LAMBDA mm:
      IF (mm \div 2048) % 2 = 1
      THEN <<-1, (mm % 4096) + (B20 - 4096), l % B20>>
      ELSE <<0, mm % 4096, l % B20>>)

\* the i64 of the digit sums h, m, l (m and l not yet carried)
WNorm(h, m, l) ==
  <<((h + ((m + (l \div B20)) \div B20) + H23) % H24) - H23,
    (m + (l \div B20)) % B20,
    l % B20>>

\* an i64 from a TLC integer
W(n) == <<(IF n < 0 THEN -1 ELSE 0), (n \div B20) % B20, n % B20>>

WAdd(a, b) == WNorm(a[1] + b[1], a[2] + b[2], a[3] + b[3])

WSub(a, b) == WNorm(a[1] - b[1], a[2] - b[2], a[3] - b[3])

\* a * c for 0 <= c <= 256 (a byte widened to i64, or 1 << 8)
WMulByte(a, c) ==
  WNorm(((((a[1] \div 4096) * c) % 4096) * 4096) + ((a[1] % 4096) * c),
        a[2] * c, a[3] * c)

\* a >> 8 (arithmetic shift of an i64)
WShr8(a) ==
  <<a[1] \div 256, (a[1] % 256) * 4096 + (a[2] \div 256),
    (a[2] % 256) * 4096 + (a[3] \div 256)>>

\* a >> 3
WShr3(a) ==
  <<a[1] \div 8, (a[1] % 8) * 131072 + (a[2] \div 8),
    (a[2] % 8) * 131072 + (a[3] \div 8)>>

\* a << 8
WShl8(a) == WMulByte(a, 256)

\* a & 0xff
WAnd255(a) == <<0, 0, a[3] % 256>>

\* a & 1
WAnd1(a) == a[3] % 2

\* byte k (0 the lowest) of the 64-bit pattern of a
WByte(a, k) ==
  CASE k = 0 -> a[3] % 256
    [] k = 1 -> (a[3] \div 256) % 256
    [] k = 2 -> (a[3] \div 65536) + (a[2] % 16) * 16
    [] k = 3 -> (a[2] \div 16) % 256
    [] k = 4 -> a[2] \div 4096
    [] k = 5 -> (a[1] % H24) % 256
    [] k = 6 -> ((a[1] % H24) \div 256) % 256
    [] OTHER -> (a[1] % H24) \div 65536

\* the i64 fits 16 bits (signed)
IsSmall(a) ==
  \/ a[1] = 0 /\ a[2] = 0 /\ a[3] < 32768
  \/ a[1] = -1 /\ a[2] = B20 - 1 /\ a[3] >= B20 - 32768

\* the TLC integer of a small i64
ToInt(a) == IF a[1] < 0 THEN a[3] - B20 ELSE a[3]

\* a * b mod 2^64, by the eight bytes of b from the highest down
WMulWide(a, b) ==
  For(LAMBDA acc, k: WAdd(WShl8(acc), WMulByte(a, WByte(b, 7 - k))), W(0), 0, 8)

\* a * b (i64 wrapping product)
WMul(a, b) ==
  IF IsSmall(a) /\ IsSmall(b) THEN W(ToInt(a) * ToInt(b)) ELSE WMulWide(a, b)

(***************************************************************************)
(* Program constants.                                                       *)
(***************************************************************************)
SCE_SIZE == 52

LSeq ==
  <<121, 175, 6, 225, 165, 113, 14, 27, 24, 207, 99, 173, 56, 3, 28, 111,
    179, 34, 96, 112, 207, 20, 36, 201, 60, 235, 255, 255, 255, 255, 255, 255,
    255, 255, 255, 255, 255, 255, 255, 255, 255, 255, 255, 255, 255, 255, 255, 255,
    255, 255, 255, 7>>

\* L = 2^411 - d, little-endian bytes, indexed from 0
L == [i \in 0..51 |-> LSeq[i + 1]] @@ <<>>

LDSeq ==
  <<224, 16, 42, 223, 67, 203, 49, 158, 252, 28, 134, 83, 234, 152, 127, 28,
    146, 169, 251, 243, 17, 102, 125, 219, 102, 152, 2>>

\* LD = 2^5 * d, little-endian bytes, indexed from 0
LD == [i \in 0..26 |-> LDSeq[i + 1]] @@ <<>>

LDLen == 27
TLen == 78
MulLen == 103
MinWide == 52
MaxWide == 104


\* SBuf::new_zero(n): n limbs, all 0
NewZero(n) == Arr([i \in 0..(n - 1) |-> W(0)])

\* self.len()
len(s) == Cardinality(DOMAIN s)

\* ScalarElem::zero / new_zero
zero == NewZero(SCE_SIZE)

\* utils::bytes_cswap via ScalarElem::cswap: <<self, other>> after the call
cswap(self, cond, other) == IF cond = 1 THEN <<other, self>> ELSE <<self, other>>

\* get / get_mut fail when the index is out of bounds
InBounds(i, n) == i >= 0 /\ i < n

(***************************************************************************)
(* carry                                                                    *)
(***************************************************************************)
\* one iteration of the first loop of carry
CarryStep(s, i) ==
  Let(WAdd(s[i], W(256)), LAMBDA v:
  Let(WShr8(v), LAMBDA c:
      [s EXCEPT ![i] = WSub(v, WShl8(c)),
                ![i + 1] = WAdd(s[i + 1], WSub(c, W(1)))]))

\* the limb the fold-back of carry adds to
CarryFoldIdx(top, i) == top - 51 + i

carry(self) ==
  Let(len(self) - 1, LAMBDA top:
  Let(For(CarryStep, self, 0, top), LAMBDA s1:
  Let(WAdd(s1[top], W(256)), LAMBDA v:
  Let(WShr8(v), LAMBDA c:
  Let(WSub(c, W(1)), LAMBDA k:
  Let(For(LAMBDA s, i:
            [s EXCEPT ![CarryFoldIdx(top, i)] = WAdd(@, WMulByte(k, LD[i]))],
          [s1 EXCEPT ![top] = v], 0, LDLen), LAMBDA s2:
      [s2 EXCEPT ![top] = WSub(@, WShl8(c))]))))))

\* every index carry uses is in bounds, for self of n limbs
carry_ok(n) ==
  /\ n >= 1
  /\ \A i \in 0..(n - 2) : InBounds(i, n) /\ InBounds(i + 1, n)
  /\ \A i \in 0..(LDLen - 1) :
       InBounds(CarryFoldIdx(n - 1, i), n) /\ InBounds(i, len(LD))

(***************************************************************************)
(* reduce_weak                                                              *)
(***************************************************************************)
\* FoldIdx one limb too high: t[i + j - 51]
FoldIdxOff(i, j) == i + j - 51

\* the limb of the scratch buffer t the fold loops add to
FoldIdx(i, j) == i + j - 52

\* t after "for j in range(0, 27) { t[i + j - 52] += x * LD[j] }"
FoldStep(t, i, x) ==
  For(LAMBDA u, j: [u EXCEPT ![FoldIdx(i, j)] = WAdd(@, WMulByte(x, LD[j]))],
      t, 0, LDLen)

\* reduce_weak whose second fold stops one limb early: range(52u, n.len() - 27)
reduce_weak_short_fold(self, n) ==
  Let(Arr([i \in 0..(TLen - 1) |-> IF i < 52 THEN n[i] ELSE W(0)]), LAMBDA t0:
  Let(For(LAMBDA t, i: FoldStep(t, i, n[i]), t0, 52, len(n)), LAMBDA t1:
  Let(For(LAMBDA t, i: FoldStep(t, i, t[i]), t1, 52, len(n) - 27), LAMBDA t2:
  Let(Arr([i \in DOMAIN self |-> IF i < 52 THEN t2[i] ELSE self[i]]), LAMBDA s0:
  Let(carry(s0), LAMBDA s1:
      carry(s1))))))

\* reduce_weak with one carry pass
reduce_weak_one_carry(self, n) ==
  Let(Arr([i \in 0..(TLen - 1) |-> IF i < 52 THEN n[i] ELSE W(0)]), LAMBDA t0:
  Let(For(LAMBDA t, i: FoldStep(t, i, n[i]), t0, 52, len(n)), LAMBDA t1:
  Let(For(LAMBDA t, i: FoldStep(t, i, t[i]), t1, 52, len(n) - 26), LAMBDA t2:
  Let(Arr([i \in DOMAIN self |-> IF i < 52 THEN t2[i] ELSE self[i]]), LAMBDA s0:
      carry(s0)))))

\* self after self.reduce_weak(n)
reduce_weak(self, n) ==
  Let(Arr([i \in 0..(TLen - 1) |-> IF i < 52 THEN n[i] ELSE W(0)]), LAMBDA t0:
  Let(For(LAMBDA t, i: FoldStep(t, i, n[i]), t0, 52, len(n)), LAMBDA t1:
  Let(For(LAMBDA t, i: FoldStep(t, i, t[i]), t1, 52, len(n) - 26), LAMBDA t2:
  Let(Arr([i \in DOMAIN self |-> IF i < 52 THEN t2[i] ELSE self[i]]), LAMBDA s0:
  Let(carry(s0), LAMBDA s1:
      carry(s1))))))

\* the assertions of reduce_weak hold and every index it uses is in bounds,
\* for self of slen limbs and n of nlen limbs
reduce_weak_ok(slen, nlen) ==
  /\ nlen > 52
  /\ nlen <= 104
  /\ \A i \in 0..51 : InBounds(i, TLen) /\ InBounds(i, nlen) /\ InBounds(i, slen)
  /\ \A i \in 52..(nlen - 1) : \A j \in 0..(LDLen - 1) :
       InBounds(FoldIdx(i, j), TLen) /\ InBounds(i, nlen) /\ InBounds(j, len(LD))
  /\ \A i \in 52..(nlen - 27) : \A j \in 0..(LDLen - 1) :
       InBounds(FoldIdx(i, j), TLen) /\ InBounds(i, TLen) /\ InBounds(j, len(LD))
  /\ carry_ok(slen)

(***************************************************************************)
(* reduce                                                                   *)
(***************************************************************************)
\* ElimStep taking the multiple of L from self[51] >> 8
ElimStepShiftByte(sc, i) ==
  Let(WAdd(sc[1][i], WSub(sc[2], WMulByte(WShr8(sc[1][51]), L[i]))), LAMBDA v:
      <<[sc[1] EXCEPT ![i] = WAnd255(v)], WShr8(v)>>)

\* one iteration of "eliminate multiples of 2^411", on <<self, carry>>
ElimStep(sc, i) ==
  Let(WAdd(sc[1][i], WSub(sc[2], WMulByte(WShr3(sc[1][51]), L[i]))), LAMBDA v:
      <<[sc[1] EXCEPT ![i] = WAnd255(v)], WShr8(v)>>)

\* SubLStep without the borrow of the limb below
SubLStepNoCarry(s, mc, i) ==
  Let(WSub(s[i], W(L[i])), LAMBDA v:
      <<[mc[1] EXCEPT ![i] = WAnd255(v)], WShr8(v)>>)

\* one iteration of m = self - L, on <<m, carry>>
SubLStep(s, mc, i) ==
  Let(WSub(WAdd(s[i], mc[2]), W(L[i])), LAMBDA v:
      <<[mc[1] EXCEPT ![i] = WAnd255(v)], WShr8(v)>>)

\* self after self.reduce()
reduce(self) ==
  Let(carry(self), LAMBDA s1:
  Let(carry(s1), LAMBDA s2:
  Let(For(ElimStep, <<s2, W(0)>>, 0, 52), LAMBDA e:
  Let(For(LAMBDA mc, i: SubLStep(e[1], mc, i), <<zero, W(0)>>, 0, 52), LAMBDA m:
      cswap(e[1], 1 - WAnd1(m[2]), m[1])[1]))))

\* every index reduce uses is in bounds, for self of n limbs
reduce_ok(n) ==
  /\ carry_ok(n)
  /\ \A i \in 0..51 :
       InBounds(i, n) /\ InBounds(51, n) /\ InBounds(i, len(L)) /\ InBounds(i, SCE_SIZE)

(***************************************************************************)
(* unpack / pack.  A byte buffer is a function from 0..l-1 to 0..255; an   *)
(* Option is NONE or Some(v).                                               *)
(***************************************************************************)
NONE == <<>>

Some(v) == <<v>>

\* Option::unwrap of Some(v)
unwrap(o) == o[1]

unpack_wo_reduce(n) ==
  Arr([i \in 0..(SCE_SIZE - 1) |-> IF i < 52 THEN W(n[i]) ELSE W(0)])

unpack_w_reduce(n) ==
  Let(Arr([i \in 0..(len(n) - 1) |-> W(n[i])]), LAMBDA t:
      reduce_weak(zero, t))

\* unpack whose range pattern leaves its upper end out
unpack_exclusive(n) ==
  IF len(n) = 52 THEN Some(unpack_wo_reduce(n))
  ELSE IF len(n) >= MinWide /\ len(n) < MaxWide THEN Some(unpack_w_reduce(n))
  ELSE NONE

\* match l { 52 => .., 52..104 => .., _ => None }  (range patterns are inclusive)
unpack(n) ==
  IF len(n) = 52 THEN Some(unpack_wo_reduce(n))
  ELSE IF len(n) >= MinWide /\ len(n) <= MaxWide THEN Some(unpack_w_reduce(n))
  ELSE NONE

\* unpack of a buffer of l bytes fails no assertion and no index check
unpack_ok(l) ==
  IF l = 52 THEN \A i \in 0..51 : InBounds(i, SCE_SIZE) /\ InBounds(i, l)
  ELSE IF l >= MinWide /\ l <= MaxWide THEN reduce_weak_ok(SCE_SIZE, l)
  ELSE TRUE

\* the 52 bytes of self.pack()
pack(self) ==
  Let(reduce(self), LAMBDA t: Arr([i \in 0..51 |-> WAnd255(t[i])[3]]))

\* ScalarElem::unpack(n).unwrap().pack()
reduce_from_bytes(n) ==
  Let(unwrap(unpack(n)), LAMBDA x: pack(x))

(***************************************************************************)
(* Operators                                                                *)
(***************************************************************************)
\* add whose loop leaves the top limb out: range(0u, self.len() - 1)
add_short(self, other) ==
  Arr([i \in DOMAIN self |->
        IF i < len(self) - 1 THEN WAdd(self[i], other[i]) ELSE self[i]])

add(self, other) == Arr([i \in DOMAIN self |-> WAdd(self[i], other[i])])

\* sub whose loop never runs: the clone of self
sub_dropped(self, other) == Arr([i \in DOMAIN self |-> self[i]])

sub(self, other) == Arr([i \in DOMAIN self |-> WSub(self[i], other[i])])

\* other has a limb for every limb of self
add_ok(slen, olen) == \A i \in 0..(slen - 1) : InBounds(i, olen)

neg(self) == sub(zero, self)

\* the limb of the product buffer t that mul adds to
MulIdx(i, j) == i + j

mul(self, other) ==
  Let(For(LAMBDA u, i:
            For(LAMBDA w, j:
                  [w EXCEPT ![MulIdx(i, j)] = WAdd(@, WMul(self[i], other[j]))],
                u, 0, 52),
          NewZero(MulLen), 0, 52), LAMBDA t:
      reduce_weak(zero, t))

\* mul fails no assertion and no index check, for operands of slen and olen limbs
mul_ok(slen, olen) ==
  /\ \A i \in 0..51 : \A j \in 0..51 :
       InBounds(MulIdx(i, j), MulLen) /\ InBounds(i, slen) /\ InBounds(j, olen)
  /\ reduce_weak_ok(SCE_SIZE, MulLen)

\* eq on the raw limbs
eq_raw(self, other) == self = other

\* PartialEq::eq
eq(self, other) ==
  Let(pack(self), LAMBDA p:
  Let(pack(other), LAMBDA q:
      p = q))

\* extensions::u64_to_le_bytes(n, 8, ..) copied over a zeroed B416
from_u64(n) ==
  unpack(Arr([i \in 0..51 |-> IF i < 8 THEN WByte(n, i) ELSE 0]))

\* Rand::rand, b the B832 the generator returned
rand(b) == unwrap(unpack(b))

(***************************************************************************)
(* Reference arithmetic, for stating the claims.  A natural number is the  *)
(* function of its little-endian bytes, indexed from 0; digits are TLC     *)
(* integers.  Nothing here is taken from the program: reduction mod L is   *)
(* long division, one byte of the dividend at a time.                      *)
(***************************************************************************)
\* the natural of n bytes whose digit sums are ds, carries propagated
RefNorm(ds, n) ==
  For(LAMBDA ac, i:
        <<[ac[1] EXCEPT ![i] = (ds[i] + ac[2]) % 256], (ds[i] + ac[2]) \div 256>>,
      <<Arr([i \in 0..(n - 1) |-> 0]), 0>>, 0, n)[1]

\* byte i of L, 0 beyond its 52 bytes
RefLByte(i) == IF i < 52 THEN L[i] ELSE 0

\* <<v - q * L, borrow>> on 53 bytes; the borrow is 0 exactly when v >= q * L
RefSubL(v, q) ==
  For(LAMBDA wc, i:
        <<[wc[1] EXCEPT ![i] = (v[i] - q * RefLByte(i) + wc[2]) % 256],
          (v[i] - q * RefLByte(i) + wc[2]) \div 256>>,
      <<v, 0>>, 0, 53)

\* v if v < L, else v - L
RefCondSubL(v) ==
  Let(RefSubL(v, 1), LAMBDA w: IF w[2] < 0 THEN v ELSE w[1])

\* the low 52 bytes of a natural of 53
RefLow(v) == Arr([i \in 0..51 |-> v[i]])

\* (r * 256 + b) mod L for r < L and a byte b.  With v = r * 256 + b and
\* q = v \div 2^411 < 256, v - q * L = v % 2^411 + q * (2^411 - L) is less
\* than 2 * L: L is taken away once more if it can be
RefModStep(r, b) ==
  Let(Arr([i \in 0..52 |-> IF i = 0 THEN b ELSE r[i - 1]]), LAMBDA v:
  Let(RefSubL(v, (v[52] * 256 + v[51]) \div 8)[1], LAMBDA w:
  Let(RefCondSubL(w), LAMBDA w2:
      RefLow(w2))))

\* the 52 bytes of zero
RefZero == Arr([i \in 0..51 |-> 0])

\* a mod L as 52 bytes, for a natural a of any number of bytes
RefModL(a) ==
  For(LAMBDA r, k: RefModStep(r, a[len(a) - 1 - k]), RefZero, 0, len(a))

\* a < L, for a natural a of 52 bytes
RefBelowL(a) ==
  RefSubL(Arr([i \in 0..52 |-> IF i < 52 THEN a[i] ELSE 0]), 1)[2] < 0

\* (a - b) mod L for a, b < L: a + L - b, digit by digit, is a natural below
\* 2 * L
RefSubMod(a, b) ==
  RefLow(RefCondSubL(
    RefNorm(Arr([i \in 0..52 |-> IF i < 52 THEN a[i] + L[i] - b[i] ELSE 0]), 53)))

\* digit k of the product of the digit strings a and b of 52 bytes
RefMulDigit(a, b, k) ==
  For(LAMBDA acc, i:
        IF k - i >= 0 /\ k - i < 52 THEN acc + a[i] * b[k - i] ELSE acc,
      0, 0, 52)

\* a * b mod L for a, b of 52 bytes
RefMulMod(a, b) ==
  RefModL(RefNorm(Arr([k \in 0..103 |-> RefMulDigit(a, b, k)]), 104))

\* (a + b) mod L for a, b < L
RefAddMod(a, b) ==
  RefLow(RefCondSubL(
    RefNorm(Arr([i \in 0..52 |-> IF i < 52 THEN a[i] + b[i] ELSE 0]), 53)))

\* the integer sum_i x[i] * 256^i of the i64 limbs of x is P - N, for the
\* naturals P (the 64-bit patterns of the limbs, each at its place) and
\* N (2^64 at the place of every negative limb), of 61 bytes each
RefPos(x) ==
  RefNorm(Arr([k \in 0..60 |->
                For(LAMBDA acc, j:
                      IF k - j >= 0 /\ k - j < len(x) THEN acc + WByte(x[k - j], j)
                      ELSE acc,
                    0, 0, 8)]), 61)

RefNeg(x) ==
  Arr([k \in 0..60 |-> IF k - 8 >= 0 /\ k - 8 < len(x) /\ x[k - 8][1] < 0
                       THEN 1 ELSE 0])

\* some limb of x is negative
HasNegativeLimb(x) == \E i \in DOMAIN x : x[i][1] < 0

\* the residue mod L, as 52 bytes, of the integer value of the limbs of x
RefResidue(x) ==
  IF HasNegativeLimb(x) THEN RefSubMod(RefModL(RefPos(x)), RefModL(RefNeg(x)))
  ELSE RefModL(RefPos(x))

\* the natural of a byte buffer, mod L
RefOfBytes(n) == RefModL(n)

\* byte i of LD, 0 beyond its 27 bytes
RefLDByte(i) == IF i < 27 THEN LD[i] ELSE 0

\* <<digits, carry out>> of the integer value of 52 limbs x, each within 16
\* bits: the value is in [0, 2^416) exactly when the carry out is 0
RefCarry(x) ==
  For(LAMBDA ac, i:
        <<[ac[1] EXCEPT ![i] = (ToInt(x[i]) + ac[2]) % 256],
          (ToInt(x[i]) + ac[2]) \div 256>>,
      <<RefZero, 0>>, 0, 52)

\* (2 * a * a - a) mod L for a < L
RefTwoSquaresLessOne(a) == RefSubMod(RefMulMod(RefAddMod(a, a), a), a)

(***************************************************************************)
(* Byte buffers: the inputs of the runs.                                    *)
(***************************************************************************)
\* the buffer of the bytes listed in seq
Bytes(seq) == [i \in 0..(Len(seq) - 1) |-> seq[i + 1]] @@ <<>>

\* l bytes, all b
Fill(l, b) == Arr([i \in 0..(l - 1) |-> b])

\* l bytes 11, 48, 85, ...
Ramp(l) == Arr([i \in 0..(l - 1) |-> (i * 37 + 11) % 256])

\* tests::test_modl_416_ref, test_ops_416_ref: n, and r of each
n416 ==
  Bytes(<<246, 240, 83, 179, 121, 70, 45, 81, 201, 234, 207, 239, 14, 77, 170, 190,
          23, 238, 253, 247, 70, 152, 31, 222, 191, 242, 226, 183, 220, 4, 245, 173,
          165, 9, 50, 141, 74, 10, 93, 119, 25, 166, 206, 198, 240, 73, 168, 0,
          222, 125, 49, 115>>)

modl_r416 ==
  Bytes(<<88, 88, 246, 100, 103, 15, 99, 214, 119, 151, 90, 116, 245, 31, 34, 171,
          71, 8, 188, 210, 238, 116, 38, 222, 108, 21, 228, 183, 220, 4, 245, 173,
          165, 9, 50, 141, 74, 10, 93, 119, 25, 166, 206, 198, 240, 73, 168, 0,
          222, 125, 49, 3>>)

ops_r416 ==
  Bytes(<<217, 96, 83, 178, 120, 56, 246, 65, 73, 110, 53, 31, 213, 197, 88, 238,
          67, 11, 208, 229, 6, 8, 247, 200, 90, 196, 175, 132, 55, 151, 10, 56,
          102, 210, 188, 23, 196, 236, 243, 20, 72, 12, 118, 242, 141, 158, 70, 49,
          109, 22, 7, 2>>)

\* tests::test_modl_512_ref, test_ops_512_ref
n512 ==
  Bytes(<<243, 165, 53, 71, 236, 207, 166, 132, 3, 127, 170, 52, 98, 122, 182, 46,
          24, 164, 92, 221, 215, 84, 114, 11, 128, 229, 207, 212, 94, 138, 63, 142,
          15, 111, 225, 190, 27, 108, 175, 69, 141, 81, 204, 239, 135, 164, 13, 44,
          135, 176, 221, 7, 58, 247, 227, 22, 18, 140, 59, 139, 134, 15, 120, 190>>)

modl_r512 ==
  Bytes(<<179, 152, 165, 163, 30, 137, 57, 175, 108, 254, 24, 110, 111, 175, 239, 234,
          122, 82, 172, 201, 67, 227, 97, 255, 193, 81, 17, 251, 224, 9, 198, 90,
          166, 153, 74, 174, 111, 90, 177, 69, 141, 81, 204, 239, 135, 164, 13, 44,
          135, 176, 221, 7>>)

ops_r512 ==
  Bytes(<<141, 68, 221, 174, 23, 210, 72, 68, 55, 90, 29, 183, 126, 222, 40, 222,
          198, 61, 166, 200, 135, 155, 11, 240, 70, 186, 179, 248, 85, 118, 229, 231,
          47, 97, 64, 178, 218, 153, 247, 18, 158, 40, 47, 206, 14, 52, 249, 178,
          145, 179, 49, 6>>)

\* tests::test_modl_832_ref, test_ops_832_ref
n832 ==
  Bytes(<<20, 72, 3, 149, 131, 135, 154, 125, 182, 54, 2, 151, 160, 44, 37, 45,
          241, 161, 160, 69, 167, 154, 239, 4, 169, 20, 244, 177, 253, 36, 76, 133,
          148, 74, 213, 2, 248, 7, 148, 175, 186, 185, 131, 56, 174, 89, 166, 227,
          34, 250, 214, 100, 143, 161, 146, 54, 150, 41, 226, 78, 128, 98, 97, 218,
          237, 178, 4, 83, 51, 202, 241, 143, 17, 51, 237, 34, 117, 106, 85, 76,
          52, 206, 101, 148, 187, 56, 228, 98, 227, 85, 187, 130, 83, 120, 135, 50,
          121, 190, 155, 35, 97, 243, 246, 25>>)

modl_r832 ==
  Bytes(<<229, 67, 70, 59, 178, 82, 22, 192, 138, 219, 146, 114, 174, 89, 239, 170,
          23, 180, 163, 59, 140, 136, 204, 246, 57, 113, 197, 224, 30, 14, 225, 110,
          34, 232, 241, 154, 241, 78, 14, 0, 212, 66, 73, 207, 51, 73, 7, 223,
          177, 58, 238, 0>>)

ops_r832 ==
  Bytes(<<28, 44, 97, 182, 200, 218, 133, 119, 43, 112, 42, 84, 176, 131, 73, 252,
          193, 51, 145, 55, 99, 144, 0, 19, 75, 222, 11, 210, 6, 7, 172, 84,
          30, 63, 117, 159, 130, 7, 116, 212, 245, 142, 216, 199, 102, 204, 60, 35,
          222, 99, 157, 1>>)

\* tests::test_from_u64: n = 72623859790382856 as an i64 bit pattern, and b
from_u64_n == <<66051, 16464, 395016>>

from_u64_b ==
  Bytes(<<8, 7, 6, 5, 4, 3, 2, 1, 0, 0, 0, 0, 0, 0, 0, 0,
          0, 0, 0, 0, 0, 0, 0, 0, 0, 0, 0, 0, 0, 0, 0, 0,
          0, 0, 0, 0, 0, 0, 0, 0, 0, 0, 0, 0, 0, 0, 0, 0,
          0, 0, 0, 0>>)

\* 104 bytes whose fold is 2^416 - 1 plus a multiple of 2^416
wide_residual ==
  Bytes(<<255, 99, 244, 166, 235, 254, 88, 96, 38, 254, 198, 12, 11, 227, 124, 7,
          220, 156, 19, 140, 37, 213, 235, 42, 138, 244, 22, 59, 127, 225, 229, 146,
          12, 144, 90, 165, 128, 23, 225, 81, 136, 71, 12, 241, 123, 203, 180, 35,
          136, 84, 135, 50, 0, 0, 0, 0, 0, 0, 0, 0, 0, 0, 0, 0,
          0, 0, 0, 0, 0, 0, 0, 0, 0, 0, 0, 0, 0, 0, 0, 0,
          0, 0, 0, 0, 0, 0, 0, 0, 0, 0, 0, 0, 0, 0, 0, 0,
          0, 0, 0, 0, 0, 0, 0, 2>>)

\* 104 bytes: 2^416 - 1, and nothing above
wide_ones == Arr([i \in 0..103 |-> IF i < 52 THEN 255 ELSE 0])

(***************************************************************************)
(* The state.  reg: the caller's two ScalarElem variables x and y, NONE    *)
(* until bound.  call: the last call made, its operands as they were when  *)
(* it was made, its input buffer and its return value.  ops: the number of *)
(* add, sub, neg and mul calls made.  panicked: an assertion or an index   *)
(* check failed.  pc, loc: the next statement and the locals of the test   *)
(* program tests::test_ops_b416 / test_ops_b512 / test_ops_b832.           *)
(***************************************************************************)
VARIABLES reg, call, ops, panicked, pc, loc

vars == <<reg, call, ops, panicked, pc, loc>>

\* the number of arithmetic calls of a run
MaxOps == 2

Regs == {"x", "y"}

Call(op, self, other, n, ret) ==
  [op |-> op, self |-> self, other |-> other, n |-> n, ret |-> ret]

NoCall == Call("none", NONE, NONE, NONE, NONE)

NoLocals ==
  [n1 |-> NONE, a |-> NONE, apa |-> NONE, aaa1 |-> NONE, s1 |-> NONE,
   aa |-> NONE, aaa2 |-> NONE, s2 |-> NONE]

Init ==
  /\ reg = [r \in Regs |-> NONE]
  /\ call = NoCall
  /\ ops = 0
  /\ panicked = FALSE
  /\ pc = "a"
  /\ loc = NoLocals

\* the last call changed call alone: Pack, Eq, ReduceFromBytes, and an unpack
\* that returned None.  Whatever follows it leads where it leads from the state
\* the call was made in, so a run is not continued past it
Observed ==
  \/ call.op \in {"pack", "eq", "reduce_from_bytes"}
  \/ call.op = "unpack" /\ call.ret = NONE

\* the call c panics
Fault(c) ==
  /\ panicked' = TRUE
  /\ call' = c
  /\ UNCHANGED reg

\* the call c returns the Option o, bound to the variable r when it is Some
Bind(r, c, o) ==
  /\ panicked' = FALSE
  /\ call' = [c EXCEPT !.ret = o]
  /\ reg' = [reg EXCEPT ![r] = o]

\* let x = ScalarElem::zero()
Zero ==
  /\ ~panicked /\ ~Observed /\ pc = "a"
  /\ reg["x"] = NONE
  /\ Bind("x", Call("zero", NONE, NONE, NONE, NONE), Some(zero))
  /\ UNCHANGED <<ops, pc, loc>>

\* let r = ScalarElem::unpack(&n), r left unbound on None
Unpack(r, n) ==
  /\ ~panicked /\ ~Observed /\ pc = "a"
  /\ reg[r] = NONE
  /\ IF unpack_ok(len(n))
     THEN Bind(r, Call("unpack", NONE, NONE, n, NONE), unpack(n))
     ELSE Fault(Call("unpack", NONE, NONE, n, NONE))
  /\ UNCHANGED <<ops, pc, loc>>

\* let x = FromPrimitive::from_u64(n)
FromU64(n) ==
  /\ ~panicked /\ ~Observed /\ pc = "a"
  /\ reg["x"] = NONE
  /\ IF unpack_ok(SCE_SIZE)
     THEN Bind("x", Call("from_u64", NONE, NONE, n, NONE), from_u64(n))
     ELSE Fault(Call("from_u64", NONE, NONE, n, NONE))
  /\ UNCHANGED <<ops, pc, loc>>

\* let x = ScalarElem::new_rand(), b the B832 drawn from the generator
Rand(b) ==
  /\ ~panicked /\ ~Observed /\ pc = "a"
  /\ reg["x"] = NONE
  /\ IF unpack_ok(len(b)) /\ unpack(b) # NONE
     THEN Bind("x", Call("rand", NONE, NONE, b, NONE), Some(rand(b)))
     ELSE Fault(Call("rand", NONE, NONE, b, NONE))
  /\ UNCHANGED <<ops, pc, loc>>

\* x = x + o, x = x - o, x = x * o for a bound variable o
Add(o) ==
  /\ ~panicked /\ ~Observed /\ pc = "a"
  /\ ops < MaxOps
  /\ reg["x"] # NONE
  /\ reg[o] # NONE
  /\ LET c == Call("add", reg["x"], reg[o], NONE, NONE)
     IN  IF add_ok(len(unwrap(reg["x"])), len(unwrap(reg[o])))
         THEN Bind("x", c, Some(add(unwrap(reg["x"]), unwrap(reg[o]))))
         ELSE Fault(c)
  /\ ops' = ops + 1
  /\ UNCHANGED <<pc, loc>>

Sub(o) ==
  /\ ~panicked /\ ~Observed /\ pc = "a"
  /\ ops < MaxOps
  /\ reg["x"] # NONE
  /\ reg[o] # NONE
  /\ LET c == Call("sub", reg["x"], reg[o], NONE, NONE)
     IN  IF add_ok(len(unwrap(reg["x"])), len(unwrap(reg[o])))
         THEN Bind("x", c, Some(sub(unwrap(reg["x"]), unwrap(reg[o]))))
         ELSE Fault(c)
  /\ ops' = ops + 1
  /\ UNCHANGED <<pc, loc>>

Mul(o) ==
  /\ ~panicked /\ ~Observed /\ pc = "a"
  /\ ops < MaxOps
  /\ reg["x"] # NONE
  /\ reg[o] # NONE
  /\ LET c == Call("mul", reg["x"], reg[o], NONE, NONE)
     IN  IF mul_ok(len(unwrap(reg["x"])), len(unwrap(reg[o])))
         THEN Bind("x", c, Some(mul(unwrap(reg["x"]), unwrap(reg[o]))))
         ELSE Fault(c)
  /\ ops' = ops + 1
  /\ UNCHANGED <<pc, loc>>

\* x = -x
Neg ==
  /\ ~panicked /\ ~Observed /\ pc = "a"
  /\ ops < MaxOps
  /\ reg["x"] # NONE
  /\ LET c == Call("neg", reg["x"], NONE, NONE, NONE)
     IN  IF add_ok(SCE_SIZE, len(unwrap(reg["x"])))
         THEN Bind("x", c, Some(neg(unwrap(reg["x"]))))
         ELSE Fault(c)
  /\ ops' = ops + 1
  /\ UNCHANGED <<pc, loc>>

\* r.pack()
Pack(r) ==
  /\ ~panicked /\ ~Observed /\ pc = "a"
  /\ reg[r] # NONE
  /\ IF reduce_ok(len(unwrap(reg[r])))
     THEN /\ call' = Call("pack", reg[r], NONE, NONE, pack(unwrap(reg[r])))
          /\ UNCHANGED <<reg, panicked>>
     ELSE Fault(Call("pack", reg[r], NONE, NONE, NONE))
  /\ UNCHANGED <<ops, pc, loc>>

\* x == y
Eq ==
  /\ ~panicked /\ ~Observed /\ pc = "a"
  /\ reg["x"] # NONE
  /\ reg["y"] # NONE
  /\ LET c == Call("eq", reg["x"], reg["y"], NONE, NONE)
     IN  IF reduce_ok(len(unwrap(reg["x"]))) /\ reduce_ok(len(unwrap(reg["y"])))
         THEN /\ call' = [c EXCEPT !.ret = eq(unwrap(reg["x"]), unwrap(reg["y"]))]
              /\ UNCHANGED <<reg, panicked>>
         ELSE Fault(c)
  /\ UNCHANGED <<ops, pc, loc>>

\* ScalarElem::reduce_from_bytes(&n).  It reads no variable: what it returns is
\* the same in every state, and a run makes this call before any other
ReduceFromBytes(n) ==
  /\ ~panicked /\ call.op = "none" /\ pc = "a"
  /\ LET c == Call("reduce_from_bytes", NONE, NONE, n, NONE)
     IN  IF unpack_ok(len(n)) /\ unpack(n) # NONE /\ reduce_ok(SCE_SIZE)
         THEN /\ call' = [c EXCEPT !.ret = reduce_from_bytes(n)]
              /\ UNCHANGED <<reg, panicked>>
         ELSE Fault(c)
  /\ UNCHANGED <<ops, pc, loc>>

(***************************************************************************)
(* The test program: the body shared by tests::test_ops_b416, _b512 and    *)
(* _b832, one statement a step, n1 the buffer Bytes::new_rand() returned.  *)
(***************************************************************************)
\* let a = ScalarElem::unpack(&n1).unwrap()
TestA(n1) ==
  /\ ~panicked /\ call.op = "none"
  /\ pc = "a"
  /\ IF unpack_ok(len(n1)) /\ unpack(n1) # NONE
     THEN /\ loc' = [loc EXCEPT !.n1 = Some(n1), !.a = unpack(n1)]
          /\ pc' = "apa"
          /\ UNCHANGED panicked
     ELSE /\ panicked' = TRUE
          /\ UNCHANGED <<pc, loc>>
  /\ UNCHANGED <<reg, call, ops>>

\* let apa = a + a
TestApa ==
  /\ ~panicked /\ call.op = "none"
  /\ pc = "apa"
  /\ loc' = [loc EXCEPT !.apa = Some(add(unwrap(loc.a), unwrap(loc.a)))]
  /\ pc' = "aaa1"
  /\ UNCHANGED <<reg, call, ops, panicked>>

\* let aaa1 = a * apa
TestAaa1 ==
  /\ ~panicked /\ call.op = "none"
  /\ pc = "aaa1"
  /\ loc' = [loc EXCEPT !.aaa1 = Some(mul(unwrap(loc.a), unwrap(loc.apa)))]
  /\ pc' = "s1"
  /\ UNCHANGED <<reg, call, ops, panicked>>

\* let s1 = aaa1 - a
TestS1 ==
  /\ ~panicked /\ call.op = "none"
  /\ pc = "s1"
  /\ loc' = [loc EXCEPT !.s1 = Some(sub(unwrap(loc.aaa1), unwrap(loc.a)))]
  /\ pc' = "aa"
  /\ UNCHANGED <<reg, call, ops, panicked>>

\* let aa = a * a
TestAa ==
  /\ ~panicked /\ call.op = "none"
  /\ pc = "aa"
  /\ loc' = [loc EXCEPT !.aa = Some(mul(unwrap(loc.a), unwrap(loc.a)))]
  /\ pc' = "aaa2"
  /\ UNCHANGED <<reg, call, ops, panicked>>

\* let aaa2 = aa + aa
TestAaa2 ==
  /\ ~panicked /\ call.op = "none"
  /\ pc = "aaa2"
  /\ loc' = [loc EXCEPT !.aaa2 = Some(add(unwrap(loc.aa), unwrap(loc.aa)))]
  /\ pc' = "s2"
  /\ UNCHANGED <<reg, call, ops, panicked>>

\* let s2 = aaa2 - a
TestS2 ==
  /\ ~panicked /\ call.op = "none"
  /\ pc = "s2"
  /\ loc' = [loc EXCEPT !.s2 = Some(sub(unwrap(loc.aaa2), unwrap(loc.a)))]
  /\ pc' = "assert_eq"
  /\ UNCHANGED <<reg, call, ops, panicked>>

\* assert!(s1 == s2); test_ops_b416, whose buffer has 52 bytes, goes on
TestAssertEq ==
  /\ ~panicked /\ call.op = "none"
  /\ pc = "assert_eq"
  /\ IF eq(unwrap(loc.s1), unwrap(loc.s2))
     THEN /\ pc' = IF len(unwrap(loc.n1)) = 52 THEN "assert_ne" ELSE "done"
          /\ UNCHANGED panicked
     ELSE /\ panicked' = TRUE
          /\ UNCHANGED pc
  /\ UNCHANGED <<reg, call, ops, loc>>

\* assert!(s1 != aaa2)
TestAssertNe ==
  /\ ~panicked /\ call.op = "none"
  /\ pc = "assert_ne"
  /\ IF ~eq(unwrap(loc.s1), unwrap(loc.aaa2))
     THEN /\ pc' = "done"
          /\ UNCHANGED panicked
     ELSE /\ panicked' = TRUE
          /\ UNCHANGED pc
  /\ UNCHANGED <<reg, call, ops, loc>>

(***************************************************************************)
(* The runs.  Spec: a caller's operations on two variables x and y, over a *)
(* few inputs, or else the test program on the buffers of the reference    *)
(* vectors.  SpecBytes: the conversions of one variable, over buffers of   *)
(* many lengths.  SpecTests: the test program, over buffers of the three   *)
(* widths.  SpecLimbs: multiplications and packings of operands whose      *)
(* limbs are at the ends of [-510, 510].                                    *)
(***************************************************************************)
\* what x and y are unpacked from
XBuffers == {n416, modl_r416, Fill(51, 255), Fill(105, 255)}

YBuffers == {n416, n832}

U64s == {from_u64_n}

RandBuffers == {wide_residual}

VectorBuffers == {n416, n512, n832}

Next ==
  \/ Zero
  \/ \E n \in XBuffers : Unpack("x", n)
  \/ \E n \in YBuffers : Unpack("y", n)
  \/ \E n \in U64s : FromU64(n)
  \/ \E b \in RandBuffers : Rand(b)
  \/ \E o \in Regs : Add(o)
  \/ \E o \in Regs : Sub(o)
  \/ \E o \in Regs : Mul(o)
  \/ Neg
  \/ \E r \in Regs : Pack(r)
  \/ Eq
  \/ \E n1 \in VectorBuffers : TestA(n1)
  \/ TestApa
  \/ TestAaa1
  \/ TestS1
  \/ TestAa
  \/ TestAaa2
  \/ TestS2
  \/ TestAssertEq
  \/ TestAssertNe

Spec == Init /\ [][Next]_vars

Lengths == {0, 1, 26, 27, 51, 52, 53, 63, 64, 65, 77, 78, 79, 103, 104, 105, 128}

Buffers ==
  {Fill(l, 0) : l \in Lengths} \cup {Fill(l, 255) : l \in Lengths}
    \cup {Ramp(l) : l \in Lengths}
    \cup {n416, modl_r416, n512, n832, L, from_u64_b, wide_residual, wide_ones}

\* B416, B512 and B832 buffers
UniformBuffers == {n \in Buffers : len(n) \in {52, 64, 104}}

B832s == {n \in Buffers : len(n) = 104}

\* 0, the test's n, 2^64 - 1
AllU64s == {W(0), from_u64_n, W(-1)}

NextBytes ==
  \/ Zero
  \/ \E n \in Buffers : Unpack("x", n)
  \/ \E n \in AllU64s : FromU64(n)
  \/ \E b \in B832s : Rand(b)
  \/ Pack("x")
  \/ \E n \in UniformBuffers : ReduceFromBytes(n)

SpecBytes == Init /\ [][NextBytes]_vars

TestBuffers == UniformBuffers

NextTests ==
  \/ \E n1 \in TestBuffers : TestA(n1)
  \/ TestApa
  \/ TestAaa1
  \/ TestS1
  \/ TestAa
  \/ TestAaa2
  \/ TestS2
  \/ TestAssertEq
  \/ TestAssertNe

SpecTests == Init /\ [][NextTests]_vars

\* 52 bytes: 255 at the even places, 0 at the odd ones, and the other way round
even_ones == Arr([i \in 0..51 |-> IF i % 2 = 0 THEN 255 ELSE 0])

odd_ones == Arr([i \in 0..51 |-> IF i % 2 = 1 THEN 255 ELSE 0])

\* a + a, a of 52 bytes 255: every limb 510
all_high == Let(unwrap(unpack(Fill(52, 255))), LAMBDA a: add(a, a))

\* -a - a: every limb -510
all_low == Let(unwrap(unpack(Fill(52, 255))), LAMBDA a: sub(neg(a), a))

\* (a - b) + (a - b): the limbs 510 and -510 in turn
high_low ==
  Let(sub(unwrap(unpack(even_ones)), unwrap(unpack(odd_ones))), LAMBDA d: add(d, d))

\* what x and y hold when the multiplications start: sums and differences of
\* scalars unpacked from 52 bytes, and scalars unpacked from the test vectors
XOperands == {all_high, all_low, high_low, unwrap(unpack(n416))}

YOperands == {all_high, all_low, unwrap(unpack(n832))}

InitLimbs ==
  /\ reg \in {[r \in Regs |-> IF r = "x" THEN Some(a) ELSE Some(b)] :
                a \in XOperands, b \in YOperands}
  /\ call = NoCall
  /\ ops = 0
  /\ panicked = FALSE
  /\ pc = "a"
  /\ loc = NoLocals

NextLimbs ==
  \/ \E o \in Regs : Mul(o)
  \/ \E r \in Regs : Pack(r)

\* x and y of limbs in [-510, 510], multiplied and packed
SpecLimbs == InitLimbs /\ [][NextLimbs]_vars

(***************************************************************************)
(* The claims.  x below is a ScalarElem of the state, A its integer value  *)
(* sum_i x[i] * 256^i, taken mod L by RefResidue.                           *)
(***************************************************************************)
\* some limb of x is above 255
HasWideLimb(x) == \E i \in DOMAIN x : x[i][1] = 0 /\ (x[i][2] > 0 \/ x[i][3] > 255)

\* C1: pack(x), for x built by zero, unpack, from_u64 or rand and up to MaxOps
\* of add, sub, neg and mul, returns 52 bytes, each in 0..255, that are the
\* little-endian digits of the one r in [0, L-1] congruent to A modulo L
PackIsResidue ==
  call.op = "pack" =>
    /\ ~panicked
    /\ DOMAIN call.ret = 0..51
    /\ \A i \in 0..51 : call.ret[i] \in 0..255
    /\ RefBelowL(call.ret)
    /\ call.ret = RefResidue(unwrap(call.self))

\* pack was called on a value with a negative limb and a limb above 255
PackOfUnreducedLimbs ==
  /\ call.op = "pack"
  /\ HasNegativeLimb(unwrap(call.self))
  /\ HasWideLimb(unwrap(call.self))

\* C2: reduce_from_bytes(n), that is pack(unpack(n)), for n of 52, 64 or 104
\* bytes is the 52-byte encoding of int(n) mod L: on the buffers of the
\* reference vectors it is the vector's r, and on 52 bytes of a value below L
\* it is n itself
ReduceFromBytesIsModL ==
  call.op = "reduce_from_bytes" =>
    /\ ~panicked
    /\ call.ret = RefOfBytes(call.n)
    /\ (len(call.n) = 52 /\ RefBelowL(call.n)) => call.ret = call.n
    /\ call.n = n416 => call.ret = modl_r416
    /\ call.n = n512 => call.ret = modl_r512
    /\ call.n = n832 => call.ret = modl_r832

\* reduce_from_bytes reduced the 104 bytes of test_modl_832_ref
ReducedWideVector ==
  /\ call.op = "reduce_from_bytes"
  /\ call.n = n832
  /\ call.ret = modl_r832

\* C3: pack(a * b) encodes (A * B) mod L, whatever a and b were built from
\* (unpack of any width, and add, sub, neg or mul of such values); and in the
\* test program pack(a * (a + a)) and pack(a * a) encode 2 * A * A and A * A,
\* and pack(a * (a + a) - a) encodes (2 * A * A - A) mod L, which on the
\* buffers of test_ops_416_ref, _512_ref and _832_ref is the vector's r
MulIsProduct ==
  /\ call.op = "mul" =>
       /\ ~panicked
       /\ pack(unwrap(call.ret)) =
            RefMulMod(RefResidue(unwrap(call.self)), RefResidue(unwrap(call.other)))
  /\ pc = "s1" =>
       pack(unwrap(loc.aaa1)) =
         RefMulMod(RefResidue(unwrap(loc.a)), RefResidue(unwrap(loc.apa)))
  /\ pc = "aaa2" =>
       pack(unwrap(loc.aa)) =
         RefMulMod(RefResidue(unwrap(loc.a)), RefResidue(unwrap(loc.a)))
  /\ pc = "aa" =>
       /\ pack(unwrap(loc.s1)) = RefTwoSquaresLessOne(RefOfBytes(unwrap(loc.n1)))
       /\ unwrap(loc.n1) = n416 => pack(unwrap(loc.s1)) = ops_r416
       /\ unwrap(loc.n1) = n512 => pack(unwrap(loc.s1)) = ops_r512
       /\ unwrap(loc.n1) = n832 => pack(unwrap(loc.s1)) = ops_r832

\* mul was called on an operand with a negative limb and one unpacked from
\* 104 bytes
MulOfUnreducedOperand ==
  /\ call.op = "mul"
  /\ HasNegativeLimb(unwrap(call.self))
  /\ call.other = unpack(n832)

\* C4: in the test program, for a unpacked from 52, 64 or 104 bytes,
\* s1 = ((a + a) * a) - a and s2 = ((a * a) + (a * a)) - a are equal under
\* ==, their packed forms the same 52 bytes, and assert!(s1 == s2) passes
TestSumsEqual ==
  pc = "assert_eq" =>
    /\ ~panicked
    /\ eq(unwrap(loc.s1), unwrap(loc.s2))
    /\ pack(unwrap(loc.s1)) = pack(unwrap(loc.s2))

\* the test of a 104-byte buffer got s1 and s2 of different limbs
TestSumsOfDifferentLimbs ==
  /\ pc = "assert_eq"
  /\ len(unwrap(loc.n1)) = 104
  /\ loc.s1 # loc.s2

\* C5: x == y is true exactly when the integer values of x and y are congruent
\* modulo L, whatever their limbs, and leaves x and y as they were
EqIsCongruence ==
  call.op = "eq" =>
    /\ ~panicked
    /\ call.ret = (RefResidue(unwrap(call.self)) = RefResidue(unwrap(call.other)))
    /\ call.self = reg["x"]
    /\ call.other = reg["y"]

\* == held of two values of different limbs
EqOfDifferentLimbs ==
  /\ call.op = "eq"
  /\ call.ret = TRUE
  /\ call.self # call.other

\* C6: unpack(n) looks at the length l of n alone: for l = 52 it is Some(x)
\* with x[i] the byte n[i], unreduced; for 52 < l <= 104 it is Some(x) with x
\* the weak reduction of the l bytes, of the residue of int(n); for any other
\* l it is None, and no variable is bound
UnpackByLength ==
  call.op = "unpack" =>
    /\ ~panicked
    /\ len(call.n) = 52 =>
         /\ call.ret # NONE
         /\ DOMAIN unwrap(call.ret) = 0..51
         /\ \A i \in 0..51 : unwrap(call.ret)[i] = W(call.n[i])
    /\ (len(call.n) > 52 /\ len(call.n) <= 104) =>
         /\ call.ret =
              Some(reduce_weak(zero, Arr([i \in DOMAIN call.n |-> W(call.n[i])])))
         /\ RefResidue(unwrap(call.ret)) = RefOfBytes(call.n)
    /\ (len(call.n) < 52 \/ len(call.n) > 104) =>
         /\ call.ret = NONE
         /\ \A r \in Regs : reg[r] = NONE

\* unpack returned a scalar for 104 bytes
UnpackedWidest ==
  /\ call.op = "unpack"
  /\ len(call.n) = 104
  /\ call.ret # NONE

\* C7: the ScalarElem that rand returns has its integer value in [0, L-1]
RandBelowL ==
  call.op = "rand" =>
    /\ ~panicked
    /\ \A i \in 0..51 : IsSmall(unwrap(call.ret)[i])
    /\ RefCarry(unwrap(call.ret))[2] = 0
    /\ RefBelowL(RefCarry(unwrap(call.ret))[1])

FromReduceWeak ==
  /\ ~panicked
  /\ \/ call.op \in {"mul", "rand"}
     \/ call.op = "unpack" /\ call.ret # NONE /\ len(call.n) > 52

\* C9 as stated: after reduce_weak every one of the 52 limbs is in [0, 255]
WeakLimbsAreBytes ==
  FromReduceWeak =>
    \A i \in 0..51 :
      /\ IsSmall(unwrap(call.ret)[i])
      /\ ToInt(unwrap(call.ret)[i]) \in 0..255

\* C9, amended: after reduce_weak the limbs 27..51 are in [0, 255] and limb i
\* of 0..26 is in [-LD[i], 255 + LD[i]], the second carry pass having added
\* at most one LD, or taken one away; the integer value is in [0, 2^416)
WeakLimbsNearBytes ==
  FromReduceWeak =>
    /\ \A i \in 0..51 :
         /\ IsSmall(unwrap(call.ret)[i])
         /\ ToInt(unwrap(call.ret)[i]) >= 0 - RefLDByte(i)
         /\ ToInt(unwrap(call.ret)[i]) <= 255 + RefLDByte(i)
    /\ RefCarry(unwrap(call.ret))[2] = 0

\* reduce_weak left a limb above 255
WeakLimbAboveByte ==
  /\ FromReduceWeak
  /\ HasWideLimb(unwrap(call.ret))

\* C10: whatever the caller does, nothing panics: reduce_weak is entered with
\* 52 < n.len() <= 104 and every index is in bounds, for n of each length in
\* 53..104, in mul, in carry and in reduce; and every ScalarElem has 52 limbs
NoPanicAllOf52Limbs ==
  /\ ~panicked
  /\ \A r \in Regs : reg[r] # NONE => len(unwrap(reg[r])) = 52
  /\ \A k \in {"a", "apa", "aaa1", "s1", "aa", "aaa2", "s2"} :
       loc[k] # NONE => len(unwrap(loc[k])) = 52
  /\ call.op = "unpack" => \A l \in 53..104 : reduce_weak_ok(52, l)
  /\ call.op = "mul" => mul_ok(52, 52)
  /\ call.op \in {"pack", "eq"} => reduce_ok(52)

\* mul returned, the second arithmetic call on a value unpacked from 104 bytes
MulReturned ==
  /\ call.op = "mul"
  /\ ops = MaxOps
  /\ call.other = unpack(n832)
  /\ call.ret # NONE

(***************************************************************************)
(* The 64-bit range.  Every addition, subtraction and multiplication of    *)
(* the code is looked at with its operands: it leaves the range when the   *)
(* i64 it yields is not the sum, difference or product of the integers.    *)
(* The functions below run the steps of carry, reduce_weak, mul and reduce *)
(* in program order and return <<result, some operation left the range>>.  *)
(***************************************************************************)
\* the digits of the sums h, m, l carried, and not cut to 64 bits
WExact(h, m, l) ==
  <<h + ((m + (l \div B20)) \div B20), (m + (l \div B20)) % B20, l % B20>>

WNormWraps(h, m, l) == WNorm(h, m, l) # WExact(h, m, l)

\* a + b leaves the range
WAddWraps(a, b) == WNormWraps(a[1] + b[1], a[2] + b[2], a[3] + b[3])

\* a - b leaves the range
WSubWraps(a, b) == WNormWraps(a[1] - b[1], a[2] - b[2], a[3] - b[3])

\* a * c leaves the range, for 0 <= c <= 256.  With a at or beyond 2^62 in
\* magnitude the product does for every c >= 2 (-2^62 * 2 is looked at with
\* the rest)
WMulByteWraps(a, c) ==
  IF a[1] >= 0 - (2^22) /\ a[1] < 2^22
  THEN WNormWraps(a[1] * c, a[2] * c, a[3] * c)
  ELSE c >= 2

\* |a|, and a itself for -2^63
WAbs(a) == IF a[1] < 0 THEN WSub(W(0), a) ELSE a

\* a * b leaves the range: |a| * |b|, taken a byte of |b| at a time from the
\* highest down, does at some step (a product of -2^63 is counted as leaving)
WMulWraps(a, b) ==
  IF IsSmall(a) /\ IsSmall(b) THEN FALSE
  ELSE Let(WAbs(a), LAMBDA x:
       Let(WAbs(b), LAMBDA y:
           \/ x[1] < 0
           \/ y[1] < 0
           \/ For(LAMBDA aw, k:
                    <<WAdd(WShl8(aw[1]), WMulByte(x, WByte(y, 7 - k))),
                      \/ aw[2]
                      \/ WMulByteWraps(aw[1], 256)
                      \/ WMulByteWraps(x, WByte(y, 7 - k))
                      \/ WAddWraps(WShl8(aw[1]), WMulByte(x, WByte(y, 7 - k)))>>,
                  <<W(0), FALSE>>, 0, 8)[2]))

\* an operation of iteration i of the first loop of carry leaves the range
CarryStepWraps(s, i) ==
  \/ WAddWraps(s[i], W(256))
  \/ Let(WAdd(s[i], W(256)), LAMBDA v:
     Let(WShr8(v), LAMBDA c:
         \/ WSubWraps(c, W(1))
         \/ WAddWraps(s[i + 1], WSub(c, W(1)))
         \/ WMulByteWraps(c, 256)
         \/ WSubWraps(v, WShl8(c))))

\* the operations on the top limb and of the fold-back of carry, s the limbs
\* after the first loop; the fold-back adds to each limb once
CarryTopWraps(s, top) ==
  \/ WAddWraps(s[top], W(256))
  \/ Let(WAdd(s[top], W(256)), LAMBDA v:
     Let(WShr8(v), LAMBDA c:
         \/ WSubWraps(c, W(1))
         \/ \E i \in 0..(LDLen - 1) :
              \/ WMulByteWraps(WSub(c, W(1)), LD[i])
              \/ WAddWraps(s[CarryFoldIdx(top, i)], WMulByte(WSub(c, W(1)), LD[i]))
         \/ WMulByteWraps(c, 256)
         \/ WSubWraps(v, WShl8(c))))

carry_checked(self) ==
  Let(For(LAMBDA sw, i: <<CarryStep(sw[1], i), sw[2] \/ CarryStepWraps(sw[1], i)>>,
          <<self, FALSE>>, 0, len(self) - 1), LAMBDA sw:
      <<carry(self), sw[2] \/ CarryTopWraps(sw[1], len(self) - 1)>>)

\* an operation of "for j in range(0, 27) { t[i + j - 52] += x * LD[j] }"
\* leaves the range; the loop adds to each limb once
FoldStepWraps(t, i, x) ==
  \E j \in 0..(LDLen - 1) :
    \/ WMulByteWraps(x, LD[j])
    \/ WAddWraps(t[FoldIdx(i, j)], WMulByte(x, LD[j]))

reduce_weak_checked(self, n) ==
  Let(Arr([i \in 0..(TLen - 1) |-> IF i < 52 THEN n[i] ELSE W(0)]), LAMBDA t0:
  Let(For(LAMBDA tw, i:
            <<FoldStep(tw[1], i, n[i]), tw[2] \/ FoldStepWraps(tw[1], i, n[i])>>,
          <<t0, FALSE>>, 52, len(n)), LAMBDA t1:
  Let(For(LAMBDA tw, i:
            <<FoldStep(tw[1], i, tw[1][i]),
              tw[2] \/ FoldStepWraps(tw[1], i, tw[1][i])>>,
          t1, 52, len(n) - 26), LAMBDA t2:
  Let(Arr([i \in DOMAIN self |-> IF i < 52 THEN t2[1][i] ELSE self[i]]), LAMBDA s0:
  Let(carry_checked(s0), LAMBDA s1:
  Let(carry_checked(s1[1]), LAMBDA s2:
      <<s2[1], t2[2] \/ s1[2] \/ s2[2]>>))))))

\* <<t, left the range>> after the two loops of mul; the inner loop adds to
\* each limb once
mul_product_checked(self, other) ==
  For(LAMBDA uw, i:
        <<For(LAMBDA w, j:
                [w EXCEPT ![MulIdx(i, j)] = WAdd(@, WMul(self[i], other[j]))],
              uw[1], 0, 52),
          \/ uw[2]
          \/ \E j \in 0..51 :
               \/ WMulWraps(self[i], other[j])
               \/ WAddWraps(uw[1][MulIdx(i, j)], WMul(self[i], other[j]))>>,
      <<NewZero(MulLen), FALSE>>, 0, 52)

mul_checked(self, other) ==
  Let(mul_product_checked(self, other), LAMBDA t:
  Let(reduce_weak_checked(zero, t[1]), LAMBDA r:
      <<r[1], t[2] \/ r[2]>>))

\* an operation of iteration i of "eliminate multiples of 2^411" leaves the
\* range
ElimStepWraps(sc, i) ==
  \/ WMulByteWraps(WShr3(sc[1][51]), L[i])
  \/ WSubWraps(sc[2], WMulByte(WShr3(sc[1][51]), L[i]))
  \/ WAddWraps(sc[1][i], WSub(sc[2], WMulByte(WShr3(sc[1][51]), L[i])))

\* an operation of iteration i of m = self - L leaves the range
SubLStepWraps(s, mc, i) ==
  \/ WAddWraps(s[i], mc[2])
  \/ WSubWraps(WAdd(s[i], mc[2]), W(L[i]))

reduce_checked(self) ==
  Let(carry_checked(self), LAMBDA s1:
  Let(carry_checked(s1[1]), LAMBDA s2:
  Let(For(LAMBDA ew, i: <<ElimStep(ew[1], i), ew[2] \/ ElimStepWraps(ew[1], i)>>,
          <<<<s2[1], W(0)>>, FALSE>>, 0, 52), LAMBDA e:
  Let(For(LAMBDA mw, i:
            <<SubLStep(e[1][1], mw[1], i), mw[2] \/ SubLStepWraps(e[1][1], mw[1], i)>>,
          <<<<zero, W(0)>>, FALSE>>, 0, 52), LAMBDA m:
      <<cswap(e[1][1], 1 - WAnd1(m[1][2]), m[1][1])[1],
        s1[2] \/ s2[2] \/ e[2] \/ m[2]>>))))

\* every limb of x is in [-510, 510]
LimbsInRange(x) ==
  \A i \in DOMAIN x : IsSmall(x[i]) /\ ToInt(x[i]) >= 0 - 510 /\ ToInt(x[i]) <= 510

\* limb k of the product of a and b as integers: the sum of a[i] * b[k - i]
RefConvolution(a, b, k) ==
  For(LAMBDA acc, i:
        IF k - i >= 0 /\ k - i < 52 THEN acc + ToInt(a[i]) * ToInt(b[k - i]) ELSE acc,
      0, 0, 52)

\* C11: for operands whose limbs are all in [-510, 510], no addition,
\* subtraction, multiplication or shift of mul (its products, the two fold
\* passes and the two carry passes of reduce_weak) or of pack (the carry
\* passes and the two loops of reduce) leaves the signed 64-bit range, and
\* the results are those of the integers: the product limbs are the sums of
\* a[i] * b[k - i], pack(a * b) encodes A * B mod L and pack(a) encodes A mod L
NoWrapWithinLimbBound ==
  /\ (call.op = "mul" /\ LimbsInRange(unwrap(call.self))
        /\ LimbsInRange(unwrap(call.other))) =>
       /\ ~panicked
       /\ Let(mul_checked(unwrap(call.self), unwrap(call.other)), LAMBDA r:
            ~r[2] /\ call.ret = Some(r[1]))
       /\ Let(mul_product_checked(unwrap(call.self), unwrap(call.other)), LAMBDA t:
            \A k \in 0..(MulLen - 1) :
              t[1][k] = W(RefConvolution(unwrap(call.self), unwrap(call.other), k)))
       /\ pack(unwrap(call.ret)) =
            RefMulMod(RefResidue(unwrap(call.self)), RefResidue(unwrap(call.other)))
  /\ (call.op = "pack" /\ LimbsInRange(unwrap(call.self))) =>
       /\ ~panicked
       /\ Let(reduce_checked(unwrap(call.self)), LAMBDA r:
            ~r[2] /\ call.ret = Arr([i \in 0..51 |-> WAnd255(r[1][i])[3]]))
       /\ call.ret = RefResidue(unwrap(call.self))

\* mul returned the product of operands with the limbs 510 and -510
MulAtLimbBound ==
  /\ call.op = "mul"
  /\ ~panicked
  /\ \A i \in 0..51 : unwrap(call.self)[i] = W(510)
  /\ \A i \in 0..51 : unwrap(call.other)[i] = W(0 - 510)
  /\ call.ret # NONE

=============================================================================
